---- MODULE Spec2Model ----
(***************************************************************************)
(* A model of pymsa/core/score.py: the Score contract (compute, which      *)
(* validates and delegates to evaluate), the five column metrics, and the  *)
(* structural scorer Strike with its staging files, structure fetch and    *)
(* external executable.                                                    *)
(*                                                                         *)
(* Conventions.  A Python str is a sequence of one-character strings, a    *)
(* Python list a sequence; indices are 1-based here and 0-based in the     *)
(* source.  An insertion-ordered dict is a sequence of <<key, value>>.     *)
(* A Python float is modelled by the exact number it approximates: a       *)
(* quotient is a reduced fraction <<p, q>>, and a sum of x*ln(x) terms is  *)
(* a function from primes to fractions, the coefficients of ln(prime).     *)
(***************************************************************************)
EXTENDS Integers, Sequences, FiniteSets, TLC

VARIABLES
    metric,               \* the class of the scorer under consideration
    aligned_sequences,    \* argument of compute
    substitution_matrix,  \* self.substitution_matrix (Star, SumOfPairs)
    sequences_id,         \* argument of Strike.compute
    chains,               \* argument of Strike.compute
    outcome,              \* result of the Score.compute call, or NotCalled
    con,                  \* the file strike/in.con: NoFile or its records
    aln,                  \* the file strike/aln.fa: NoFile or its records
    pdb,                  \* ids whose file strike/<id>.pdb exists
    pc,                   \* position of each Strike instance
    idx,                  \* loop variable i of Strike.evaluate, per instance
    c_file,               \* records an instance wrote to its c_file handle
    a_file,               \* records an instance wrote to its a_file handle
    pending,              \* exception travelling out of the with block
    calls                 \* per instance, one record per compute call made

vars == <<metric, aligned_sequences, substitution_matrix, sequences_id, chains,
          outcome, con, aln, pdb, pc, idx, c_file, a_file, pending, calls>>

scoreVars == <<outcome>>
strikeVars == <<con, aln, pdb, pc, idx, c_file, a_file, pending, calls>>
inputVars == <<metric, aligned_sequences, substitution_matrix, sequences_id, chains>>

(***************************************************************************)
(* Bounds of the model.                                                    *)
(***************************************************************************)
MaxCells == 6      \* an alignment has at most this many symbols (and rows)
MaxRagged == 3     \* unaligned inputs: at most this many rows, each this long
MaxIds == 2        \* Strike: at most this many sequences per call
MaxCalls == 2      \* Strike: compute calls per instance

Symbols == {"A", "C", "-"}
ScoreMetrics == {"Entropy", "Star", "SumOfPairs", "PercentageOfNonGaps",
                 "PercentageOfTotallyConservedColumns"}

Range(s) == {s[i] : i \in DOMAIN s}
Min(S) == CHOOSE x \in S : \A y \in S : x <= y
Abs(x) == IF x < 0 THEN -x ELSE x

RECURSIVE SumOver(_, _)
\* The sum of f[x] over the finite set S.
SumOver(S, f) ==
    IF S = {} THEN 0
    ELSE LET x == CHOOSE y \in S : TRUE IN f[x] + SumOver(S \ {x}, f)

(***************************************************************************)
(* Exact arithmetic standing for Python's floats.                          *)
(***************************************************************************)
RECURSIVE GCD(_, _)
GCD(a, b) == IF b = 0 THEN a ELSE GCD(b, a % b)

\* The fraction p/q (q > 0) in lowest terms.
Rat(p, q) == LET g == GCD(Abs(p), q) IN <<p \div g, q \div g>>
RatAdd(x, y) == Rat(x[1] * y[2] + y[1] * x[2], x[2] * y[2])
RatSub(x, y) == Rat(x[1] * y[2] - y[1] * x[2], x[2] * y[2])
RatMul(x, y) == Rat(x[1] * y[1], x[2] * y[2])
RatLess(x, y) == x[1] * y[2] < y[1] * x[2]

Primes == {p \in 2..(MaxCells + 1) : \A d \in 2..(p - 1) : p % d # 0}

RECURSIVE Exponent(_, _)
\* The multiplicity of the prime p in k >= 1, so that ln(k) is the sum
\* over the primes of Exponent(k, p) * ln(p).
Exponent(k, p) == IF k % p = 0 THEN 1 + Exponent(k \div p, p) ELSE 0

\* Numbers of the form sum of c[p] * ln(p), c[p] a fraction.  The logarithms
\* of the primes are linearly independent over the rationals, so two such
\* numbers are equal exactly when their coefficients are.
LogZero == [p \in Primes |-> Rat(0, 1)]
LogAdd(x, y) == [p \in Primes |-> RatAdd(x[p], y[p])]
\* value * math.log(value) for the fraction value = a/b > 0.
XLogX(value) ==
    [p \in Primes |->
        RatMul(value, Rat(Exponent(value[1], p) - Exponent(value[2], p), 1))]

(***************************************************************************)
(* SubstitutionMatrix.get_distance (pymsa/core/substitution_matrix.py).    *)
(* "Identity" gives MatchValue to equal symbols and 0 to others;           *)
(* "Ordered" gives every ordered pair of symbols a value of its own.       *)
(***************************************************************************)
MatchValue == 5
Matrices == {"Identity", "Ordered"}
DefaultMatrix == "Identity"
SymbolRank(c) == CASE c = "A" -> 0 [] c = "C" -> 1 [] OTHER -> 2

get_distance(matrix, char_a, char_b) ==
    IF matrix = "Identity"
    THEN (IF char_a = char_b THEN MatchValue ELSE 0)
    ELSE 3 * SymbolRank(char_a) + SymbolRank(char_b) - 4

\* int(substitution_matrix.get_distance(char_a, char_b)); get_distance is
\* integer-valued, on which int() changes nothing.
get_score_of_two_chars(matrix, char_a, char_b) ==
    get_distance(matrix, char_a, char_b)

(***************************************************************************)
(* Results of a compute call.                                              *)
(***************************************************************************)
NotCalled == [kind |-> "not_called", entered |-> FALSE]
Returned(v) == [kind |-> "returned", entered |-> TRUE, value |-> v]
\* An exception raised inside evaluate.
RaisedIn(e) == [kind |-> "raised", entered |-> TRUE, error |-> e]
\* Exception("All the sequences in the FASTA file must be aligned!")
AlignmentLengthMismatch ==
    [kind |-> "raised", entered |-> FALSE, error |-> "AlignmentLengthMismatch"]

\* all(len(sequence) == len(aligned_sequences[0]) for sequence in ...);
\* over an empty list all() is True without reading aligned_sequences[0].
all_same_length(sequences) ==
    \A i \in DOMAIN sequences : Len(sequences[i]) = Len(sequences[1])

\* for sequence in sequences: column.append(sequence[k])
column_append(column, sequences, k) ==
    column \o [i \in 1..Len(sequences) |-> sequences[i][k]]

\* The column left as it is: column.clear() omitted.
column_not_cleared(column) == column

\* column.clear()
column_clear(column) == <<>>

\* words.count(w)
count(words, w) == Cardinality({i \in DOMAIN words : words[i] = w})

\* d[key] = value on an insertion-ordered dict: a new key goes last, a
\* present key keeps its place and takes the new value.
dict_set(d, key, value) ==
    IF \E j \in DOMAIN d : d[j][1] = key
    THEN [j \in DOMAIN d |-> IF d[j][1] = key THEN <<key, value>> ELSE d[j]]
    ELSE Append(d, <<key, value>>)

RECURSIVE dict_zip(_, _, _, _)
\* dict(zip(keys, values)), from position i on, added to d.
dict_zip(keys, values, i, d) ==
    IF i > Len(keys) THEN d
    ELSE dict_zip(keys, values, i + 1, dict_set(d, keys[i], values[i]))

(***************************************************************************)
(* Entropy                                                                 *)
(***************************************************************************)
\* The frequencies of a column kept once per occurrence: zip without dict.
get_words_frequencies_per_occurrence(words) ==
    [i \in DOMAIN words |-> <<words[i], Rat(count(words, words[i]), Len(words))>>]

get_words_frequencies(words) ==
    LET word_freq == [i \in DOMAIN words |->
                        Rat(count(words, words[i]), Len(words))]
    IN dict_zip(words, word_freq, 1, <<>>)

RECURSIVE get_column_entropy_from(_, _, _)
get_column_entropy_from(column, j, current_entropy) ==
    IF j > Len(column) THEN current_entropy
    ELSE get_column_entropy_from(column, j + 1,
                                 LogAdd(current_entropy, XLogX(column[j][2])))

get_column_entropy(column) == get_column_entropy_from(column, 1, LogZero)

RECURSIVE Entropy_loop(_, _, _, _)
Entropy_loop(sequences, k, column, final_score) ==
    IF k > Len(sequences[1]) THEN final_score
    ELSE LET col == column_append(column, sequences, k)
             column_chars_and_frequencies == get_words_frequencies(col)
         IN Entropy_loop(sequences, k + 1, column_clear(col),
                LogAdd(final_score,
                       get_column_entropy(column_chars_and_frequencies)))

Entropy_evaluate(sequences) ==
    IF sequences = <<>> THEN RaisedIn("IndexError")
    ELSE Returned(Entropy_loop(sequences, 1, <<>>, LogZero))

(***************************************************************************)
(* Star                                                                    *)
(***************************************************************************)
RECURSIVE Counter(_, _, _)
\* Counter(column): each element counted, keys in first-occurrence order.
Counter(column, i, d) ==
    IF i > Len(column) THEN d
    ELSE LET old == {j \in DOMAIN d : d[j][1] = column[i]}
             n == IF old = {} THEN 0 ELSE d[CHOOSE j \in old : TRUE][2]
         IN Counter(column, i + 1, dict_set(d, column[i], n + 1))

RECURSIVE max_by_count_last(_, _, _)
\* The scan of the items keeping the last one of the greatest count.
max_by_count_last(items, j, best) ==
    IF j > Len(items) THEN best
    ELSE max_by_count_last(items, j + 1,
                           IF items[j][2] >= best[2] THEN items[j] ELSE best)

RECURSIVE max_by_count(_, _, _)
\* max(items, key=itemgetter(1)): the first item of the greatest count.
max_by_count(items, j, best) ==
    IF j > Len(items) THEN best
    ELSE max_by_count(items, j + 1,
                      IF items[j][2] > best[2] THEN items[j] ELSE best)

\* Counter(column).most_common(1)[0][0]
most_common_1(column) ==
    LET items == Counter(column, 1, <<>>)
    IN max_by_count(items, 2, items[1])[1]

RECURSIVE Star_column_from(_, _, _, _, _)
Star_column_from(matrix, column, most_frequent_char, i, score_of_column) ==
    IF i > Len(column) THEN score_of_column
    ELSE Star_column_from(matrix, column, most_frequent_char, i + 1,
            score_of_column
            + get_score_of_two_chars(matrix, most_frequent_char, column[i]))

Star_get_score_of_k_column(matrix, column) ==
    Star_column_from(matrix, column, most_common_1(column), 1, 0)

RECURSIVE Star_loop(_, _, _, _, _)
Star_loop(matrix, sequences, k, column, final_score) ==
    IF k > Len(sequences[1]) THEN final_score
    ELSE LET col == column_append(column, sequences, k)
         IN Star_loop(matrix, sequences, k + 1, column_clear(col),
                      final_score + Star_get_score_of_k_column(matrix, col))

Star_evaluate(matrix, sequences) ==
    IF sequences = <<>> THEN RaisedIn("IndexError")
    ELSE Returned(Star_loop(matrix, sequences, 1, <<>>, 0))

(***************************************************************************)
(* SumOfPairs                                                              *)
(***************************************************************************)
RECURSIVE combinations_from(_, _, _, _)
\* itertools.combinations(column, 2): the pairs (column[i], column[j]), i < j,
\* in lexicographic order of (i, j).
combinations_from(column, i, j, acc) ==
    IF i >= Len(column) THEN acc
    ELSE IF j > Len(column) THEN combinations_from(column, i + 1, i + 2, acc)
    ELSE combinations_from(column, i, j + 1,
                           Append(acc, <<column[i], column[j]>>))

RECURSIVE product_from(_, _, _, _)
\* Every ordered pair of positions, a position with itself included.
product_from(column, i, j, acc) ==
    IF i > Len(column) THEN acc
    ELSE IF j > Len(column) THEN product_from(column, i + 1, 1, acc)
    ELSE product_from(column, i, j + 1, Append(acc, <<column[i], column[j]>>))

all_ordered_pairs(column) == product_from(column, 1, 1, <<>>)

possible_combinations(column) == combinations_from(column, 1, 2, <<>>)

RECURSIVE SumOfPairs_column_from(_, _, _, _)
SumOfPairs_column_from(matrix, pairs, j, score_of_column) ==
    IF j > Len(pairs) THEN score_of_column
    ELSE SumOfPairs_column_from(matrix, pairs, j + 1,
            score_of_column
            + get_score_of_two_chars(matrix, pairs[j][1], pairs[j][2]))

SumOfPairs_get_score_of_k_column(matrix, column) ==
    SumOfPairs_column_from(matrix, possible_combinations(column), 1, 0)

RECURSIVE SumOfPairs_loop(_, _, _, _, _)
SumOfPairs_loop(matrix, sequences, k, column, final_score) ==
    IF k > Len(sequences[1]) THEN final_score
    ELSE LET col == column_append(column, sequences, k)
         IN SumOfPairs_loop(matrix, sequences, k + 1, column_clear(col),
               final_score + SumOfPairs_get_score_of_k_column(matrix, col))

SumOfPairs_evaluate(matrix, sequences) ==
    IF sequences = <<>> THEN RaisedIn("IndexError")
    ELSE Returned(SumOfPairs_loop(matrix, sequences, 1, <<>>, 0))

(***************************************************************************)
(* PercentageOfNonGaps                                                     *)
(***************************************************************************)
RECURSIVE count_gaps_from(_, _, _)
\* for sequence in align_sequences: no_of_gaps += sequence.count('-')
count_gaps_from(align_sequences, i, no_of_gaps) ==
    IF i > Len(align_sequences) THEN no_of_gaps
    ELSE count_gaps_from(align_sequences, i + 1,
                         no_of_gaps + count(align_sequences[i], "-"))

\* 100 - (no_of_gaps / total * 100)
non_gap_percentage(no_of_gaps, total) ==
    IF total = 0 THEN RaisedIn("ZeroDivisionError")
    ELSE Returned(RatSub(Rat(100, 1),
                         RatMul(Rat(no_of_gaps, total), Rat(100, 1))))

\* The same with the row count taken to be 2, as the log line of the
\* method has it.
PercentageOfNonGaps_evaluate_two_rows(align_sequences) ==
    IF align_sequences = <<>> THEN RaisedIn("IndexError")
    ELSE non_gap_percentage(count_gaps_from(align_sequences, 1, 0),
                            Len(align_sequences[1]) * 2)

PercentageOfNonGaps_evaluate(align_sequences) ==
    IF align_sequences = <<>> THEN RaisedIn("IndexError")
    ELSE LET length_of_sequence == Len(align_sequences[1])
             no_of_gaps == count_gaps_from(align_sequences, 1, 0)
         IN non_gap_percentage(no_of_gaps,
                               length_of_sequence * Len(align_sequences))

(***************************************************************************)
(* PercentageOfTotallyConservedColumns                                     *)
(***************************************************************************)
RECURSIVE Conserved_loop(_, _, _, _)
Conserved_loop(sequences, k, column, no_of_conserved_columns) ==
    IF k > Len(sequences[1]) THEN no_of_conserved_columns
    ELSE LET col == column_append(column, sequences, k)
         IN Conserved_loop(sequences, k + 1, column_clear(col),
               IF Cardinality(Range(col)) <= 1
               THEN no_of_conserved_columns + 1
               ELSE no_of_conserved_columns)

\* no_of_conserved_columns / length_sequence * 100
conserved_percentage(no_of_conserved_columns, length_sequence) ==
    IF length_sequence = 0 THEN RaisedIn("ZeroDivisionError")
    ELSE Returned(RatMul(Rat(no_of_conserved_columns, length_sequence),
                         Rat(100, 1)))

PercentageOfTotallyConservedColumns_evaluate(sequences) ==
    IF sequences = <<>> THEN RaisedIn("IndexError")
    ELSE conserved_percentage(Conserved_loop(sequences, 1, <<>>, 0),
                              Len(sequences[1]))

(***************************************************************************)
(* Score.compute                                                           *)
(***************************************************************************)
evaluate(m, matrix, sequences) ==
    CASE m = "Entropy" -> Entropy_evaluate(sequences)
      [] m = "Star" -> Star_evaluate(matrix, sequences)
      [] m = "SumOfPairs" -> SumOfPairs_evaluate(matrix, sequences)
      [] m = "PercentageOfNonGaps" -> PercentageOfNonGaps_evaluate(sequences)
      [] m = "PercentageOfTotallyConservedColumns" ->
            PercentageOfTotallyConservedColumns_evaluate(sequences)

Score_compute(m, matrix, sequences) ==
    IF ~all_same_length(sequences) THEN AlignmentLengthMismatch
    ELSE evaluate(m, matrix, sequences)

(***************************************************************************)
(* Strike: the staging directory, the structure archive, the instances.    *)
(***************************************************************************)
Scorers == {"s1", "s2"}
PdbIds == {"1abc", "9zzz"}
\* The ids the archive files.rcsb.org holds a structure for.
Archive == {"1abc"}

NoFile == [exists |-> FALSE, records |-> <<>>]
\* open(path, "w+"): the file is created, or truncated if present.
EmptyFile == [exists |-> TRUE, records |-> <<>>]

\* Path(path).is_file(), answering FALSE whatever the directory holds.
is_file_never(file) == FALSE

\* Path(path).is_file()
is_file(file) == file.exists

\* sequences_id[i] + ' ' + abspath('strike') + '/' + sequences_id[i] + '.pdb '
\* + chains[i] + '\n'
connection_line(i) ==
    [id |-> sequences_id[i], pdb_file |-> sequences_id[i], chain |-> chains[i]]

\* '>' + sequences_id[i] + '\n' + align_sequences[i] + '\n'
alignment_record(i) ==
    [header |-> sequences_id[i], sequence |-> aligned_sequences[i]]

\* Closing a handle opened with "w+": what was written through it goes to
\* the file from offset 0 on, over what the file holds by then.
flush(written, file) ==
    [exists |-> TRUE,
     records |-> written \o SubSeq(file.records, Len(written) + 1,
                                   Len(file.records))]

\* Every failed fetch turned into Exception("PDB not found in rcsb").
urlopen_raises_any(response) == "StructureNotFound"

\* try: urlopen(req) / except HTTPError: raise Exception("PDB not found in
\* rcsb"): an HTTPError is replaced, any other exception travels on as it is.
urlopen_raises(response) ==
    IF response = "HTTPError" THEN "StructureNotFound" ELSE response

\* What urlopen can do for an id: answer with the structure, answer with an
\* HTTP error status (HTTPError), or fail below HTTP (URLError).
Responses(id) ==
    (IF id \in Archive THEN {"ok"} ELSE {}) \cup {"HTTPError", "URLError"}

NewCall ==
    [files_at_entry |-> con.exists /\ aln.exists,
     saw_con |-> "unchecked", saw_aln |-> "unchecked",
     staged |-> FALSE, fetches |-> 0, fetch_failure |-> "none",
     ran |-> FALSE, ran_con |-> NoFile, ran_aln |-> NoFile,
     result |-> "running"]

cur(s) == calls[s][Len(calls[s])]
SetCur(s, r) == [calls EXCEPT ![s][Len(calls[s])] = r]
Seen(b) == IF b THEN "present" ELSE "absent"

\* compute: evaluate is entered at once; os.makedirs(..., exist_ok=True).
Strike_compute(s) ==
    /\ metric = "Strike"
    /\ pc[s] = "idle"
    /\ Len(calls[s]) < MaxCalls
    /\ calls' = [calls EXCEPT ![s] = Append(@, NewCall)]
    /\ pc' = [pc EXCEPT ![s] = "check_con"]
    /\ UNCHANGED <<con, aln, pdb, idx, c_file, a_file, pending>>

\* not Path(self.out_connection_path).is_file()
Strike_check_con(s) ==
    /\ pc[s] = "check_con"
    /\ calls' = SetCur(s, [cur(s) EXCEPT !.saw_con = Seen(con.exists)])
    /\ pc' = [pc EXCEPT ![s] = IF is_file(con) THEN "run" ELSE "check_aln"]
    /\ UNCHANGED <<con, aln, pdb, idx, c_file, a_file, pending>>

\* and not Path(self.out_alignment_path).is_file()
Strike_check_aln(s) ==
    /\ pc[s] = "check_aln"
    /\ calls' = SetCur(s, [cur(s) EXCEPT !.saw_aln = Seen(aln.exists)])
    /\ pc' = [pc EXCEPT ![s] = IF is_file(aln) THEN "run" ELSE "open_con"]
    /\ UNCHANGED <<con, aln, pdb, idx, c_file, a_file, pending>>

\* open(self.out_connection_path, "w+") as c_file
Strike_open_con(s) ==
    /\ pc[s] = "open_con"
    /\ con' = EmptyFile
    /\ c_file' = [c_file EXCEPT ![s] = <<>>]
    /\ pc' = [pc EXCEPT ![s] = "open_aln"]
    /\ UNCHANGED <<aln, pdb, idx, a_file, pending, calls>>

\* open(self.out_alignment_path, "w+") as a_file
Strike_open_aln(s) ==
    /\ pc[s] = "open_aln"
    /\ aln' = EmptyFile
    /\ a_file' = [a_file EXCEPT ![s] = <<>>]
    /\ idx' = [idx EXCEPT ![s] = 1]
    /\ calls' = SetCur(s, [cur(s) EXCEPT !.staged = TRUE])
    /\ pc' = [pc EXCEPT ![s] = "loop"]
    /\ UNCHANGED <<con, pdb, c_file, pending>>

\* c_file.writelines(...); a_file.writelines(...); next i
WriteRecords(s) ==
    /\ c_file' = [c_file EXCEPT ![s] = Append(@, connection_line(idx[s]))]
    /\ a_file' = [a_file EXCEPT ![s] = Append(@, alignment_record(idx[s]))]
    /\ idx' = [idx EXCEPT ![s] = @ + 1]

\* for i in range(len(align_sequences)): the end of the loop
Strike_loop_end(s) ==
    /\ pc[s] = "loop"
    /\ idx[s] > Len(aligned_sequences)
    /\ pc' = [pc EXCEPT ![s] = "close_aln"]
    /\ UNCHANGED <<con, aln, pdb, idx, c_file, a_file, pending, calls>>

\* get_pdb: if not Path(out_pdb_path).is_file()
Strike_get_pdb(s) ==
    /\ pc[s] = "loop"
    /\ idx[s] <= Len(aligned_sequences)
    /\ IF sequences_id[idx[s]] \in pdb
       THEN /\ WriteRecords(s)
            /\ UNCHANGED pc
       ELSE /\ pc' = [pc EXCEPT ![s] = "fetch"]
            /\ UNCHANGED <<idx, c_file, a_file>>
    /\ UNCHANGED <<con, aln, pdb, pending, calls>>

\* get_pdb: urlopen, and on success the write of strike/<id>.pdb
Strike_fetch(s) ==
    /\ pc[s] = "fetch"
    /\ \E response \in Responses(sequences_id[idx[s]]) :
         IF response = "ok"
         THEN /\ pdb' = pdb \cup {sequences_id[idx[s]]}
              /\ calls' = SetCur(s, [cur(s) EXCEPT !.fetches = @ + 1])
              /\ WriteRecords(s)
              /\ pc' = [pc EXCEPT ![s] = "loop"]
              /\ UNCHANGED pending
         ELSE /\ pending' = [pending EXCEPT ![s] = urlopen_raises(response)]
              /\ calls' = SetCur(s, [cur(s) EXCEPT !.fetches = @ + 1,
                                                   !.fetch_failure = response])
              /\ pc' = [pc EXCEPT ![s] = "close_aln"]
              /\ UNCHANGED <<pdb, idx, c_file, a_file>>
    /\ UNCHANGED <<con, aln>>

\* Leaving the with block, by its end or by an exception: a_file is closed
\* first.
Strike_close_aln(s) ==
    /\ pc[s] = "close_aln"
    /\ aln' = flush(a_file[s], aln)
    /\ pc' = [pc EXCEPT ![s] = "close_con"]
    /\ UNCHANGED <<con, pdb, idx, c_file, a_file, pending, calls>>

\* c_file is closed; an exception then ends the call.
Strike_close_con(s) ==
    /\ pc[s] = "close_con"
    /\ con' = flush(c_file[s], con)
    /\ IF pending[s] = "none"
       THEN /\ pc' = [pc EXCEPT ![s] = "run"]
            /\ UNCHANGED <<pending, calls>>
       ELSE /\ pc' = [pc EXCEPT ![s] = "idle"]
            /\ calls' = SetCur(s, [cur(s) EXCEPT !.result = pending[s]])
            /\ pending' = [pending EXCEPT ![s] = "none"]
    /\ UNCHANGED <<aln, pdb, idx, c_file, a_file>>

\* StrikeEx(exe_path).run(parameters={'-c': ..., '-a': ...}): the executable
\* reads the two files as they are now, and returns a score or fails.
Strike_run(s) ==
    /\ pc[s] = "run"
    /\ \E result \in {"returned", "ExternalToolFailure"} :
         calls' = SetCur(s, [cur(s) EXCEPT !.ran = TRUE, !.ran_con = con,
                                           !.ran_aln = aln, !.result = result])
    /\ pc' = [pc EXCEPT ![s] = "idle"]
    /\ UNCHANGED <<con, aln, pdb, idx, c_file, a_file, pending>>

\* The steps of instance s; nothing else changes when it takes one.
StrikeStep(s) ==
    /\ \/ Strike_compute(s)
       \/ Strike_check_con(s)
       \/ Strike_check_aln(s)
       \/ Strike_open_con(s)
       \/ Strike_open_aln(s)
       \/ Strike_loop_end(s)
       \/ Strike_get_pdb(s)
       \/ Strike_fetch(s)
       \/ Strike_close_aln(s)
       \/ Strike_close_con(s)
       \/ Strike_run(s)
    /\ UNCHANGED <<inputVars, scoreVars>>

(***************************************************************************)
(* The calls of compute on the five metrics.                               *)
(***************************************************************************)
\* The call compute(aligned_sequences) on the instance, made once.
Call(result) ==
    /\ outcome.kind = "not_called"
    /\ outcome' = result
    /\ UNCHANGED <<inputVars, strikeVars>>

Entropy_compute ==
    /\ metric = "Entropy"
    /\ Call(Score_compute(metric, substitution_matrix, aligned_sequences))

Star_compute ==
    /\ metric = "Star"
    /\ Call(Score_compute(metric, substitution_matrix, aligned_sequences))

SumOfPairs_compute ==
    /\ metric = "SumOfPairs"
    /\ Call(Score_compute(metric, substitution_matrix, aligned_sequences))

PercentageOfNonGaps_compute ==
    /\ metric = "PercentageOfNonGaps"
    /\ Call(Score_compute(metric, substitution_matrix, aligned_sequences))

PercentageOfTotallyConservedColumns_compute ==
    /\ metric = "PercentageOfTotallyConservedColumns"
    /\ Call(Score_compute(metric, substitution_matrix, aligned_sequences))

(***************************************************************************)
(* Inputs and specifications.                                              *)
(***************************************************************************)
Shapes == {sh \in (1..MaxCells) \X (0..MaxCells) : sh[1] * sh[2] <= MaxCells}
\* Alignments: every row of the same length.
AlignedInputs ==
    {<<>>} \cup UNION {[1..sh[1] -> [1..sh[2] -> Symbols]] : sh \in Shapes}
\* Lists whose rows are not all of the same length; compute reads only the
\* lengths of such a list, so its rows are made of one symbol.
RaggedInputs ==
    {l \in UNION {[1..n -> UNION {[1..len -> {"A"}] : len \in 0..MaxRagged}] :
                     n \in 2..MaxRagged} : ~all_same_length(l)}

StrikeIdle ==
    /\ con = NoFile
    /\ aln = NoFile
    /\ pdb = {}
    /\ pc = [s \in Scorers |-> "idle"]
    /\ idx = [s \in Scorers |-> 1]
    /\ c_file = [s \in Scorers |-> <<>>]
    /\ a_file = [s \in Scorers |-> <<>>]
    /\ pending = [s \in Scorers |-> "none"]
    /\ calls = [s \in Scorers |-> <<>>]

InitScore ==
    /\ metric \in ScoreMetrics
    /\ aligned_sequences \in AlignedInputs \cup RaggedInputs
    /\ substitution_matrix \in
          (IF metric \in {"Star", "SumOfPairs"} THEN Matrices ELSE {DefaultMatrix})
    /\ sequences_id = <<>>
    /\ chains = <<>>
    /\ outcome = NotCalled
    /\ StrikeIdle

\* Strike.compute takes one id and one chain per sequence.  The sequences
\* are either all of one length or, from two sequences on, the first is
\* shorter than the others.
StrikeAlignments(n) ==
    {[i \in 1..n |-> <<"A", "C">>],
     [i \in 1..n |-> IF i = 1 THEN <<"A">> ELSE <<"A", "C">>]}

InitStrike ==
    /\ metric = "Strike"
    /\ \E n \in 0..MaxIds :
          /\ aligned_sequences \in StrikeAlignments(n)
          /\ sequences_id \in [1..n -> PdbIds]
          /\ chains = [i \in 1..n |-> "A"]
    /\ substitution_matrix = DefaultMatrix
    /\ outcome = NotCalled
    /\ StrikeIdle

Init == InitScore \/ InitStrike

NextScore ==
    \/ Entropy_compute
    \/ Star_compute
    \/ SumOfPairs_compute
    \/ PercentageOfNonGaps_compute
    \/ PercentageOfTotallyConservedColumns_compute

Others == <<inputVars, scoreVars>>

NextStrike ==
    \/ \E s \in Scorers : Strike_compute(s) /\ UNCHANGED Others
    \/ \E s \in Scorers : Strike_check_con(s) /\ UNCHANGED Others
    \/ \E s \in Scorers : Strike_check_aln(s) /\ UNCHANGED Others
    \/ \E s \in Scorers : Strike_open_con(s) /\ UNCHANGED Others
    \/ \E s \in Scorers : Strike_open_aln(s) /\ UNCHANGED Others
    \/ \E s \in Scorers : Strike_loop_end(s) /\ UNCHANGED Others
    \/ \E s \in Scorers : Strike_get_pdb(s) /\ UNCHANGED Others
    \/ \E s \in Scorers : Strike_fetch(s) /\ UNCHANGED Others
    \/ \E s \in Scorers : Strike_close_aln(s) /\ UNCHANGED Others
    \/ \E s \in Scorers : Strike_close_con(s) /\ UNCHANGED Others
    \/ \E s \in Scorers : Strike_run(s) /\ UNCHANGED Others

Next == NextScore \/ NextStrike

Spec == Init /\ [][Next]_vars
SpecScore == InitScore /\ [][NextScore]_vars
SpecStrike == InitStrike /\ [][NextStrike]_vars

(***************************************************************************)
(* Properties.  What follows states what the code is claimed to do,        *)
(* in terms of the inputs alone.                                           *)
(***************************************************************************)
Rows == Len(aligned_sequences)
Columns == IF aligned_sequences = <<>> THEN 0 ELSE Len(aligned_sequences[1])
Ragged == ~all_same_length(aligned_sequences)
\* The symbols at index k, one per sequence.
ColumnAt(k) == [i \in 1..Rows |-> aligned_sequences[i][k]]
Occurrences(k, w) == Cardinality({i \in 1..Rows : aligned_sequences[i][k] = w})
FirstOccurrence(k, w) == Min({i \in 1..Rows : aligned_sequences[i][k] = w})
Conserved(k) == \A i, j \in 1..Rows :
                    aligned_sequences[i][k] = aligned_sequences[j][k]
Choose2(n) == (n * (n - 1)) \div 2
ReturnedBy(m) == metric = m /\ outcome.kind = "returned"

RECURSIVE LogSumOver(_, _)
\* The sum of f[x] over the finite set S, for f[x] sums of logarithms.
LogSumOver(S, f) ==
    IF S = {} THEN LogZero
    ELSE LET x == CHOOSE y \in S : TRUE
         IN LogAdd(f[x], LogSumOver(S \ {x}, f))

Cells == (1..Columns) \X (1..Rows)
DistinctCells == {c \in Cells : c[2] = FirstOccurrence(c[1], ColumnAt(c[1])[c[2]])}
\* frequency * ln(frequency) of the symbol at row c[2] of column c[1].
FrequencyTerm ==
    [c \in Cells |-> XLogX(Rat(Occurrences(c[1], ColumnAt(c[1])[c[2]]), Rows))]

\* C1: for every metric that exposes compute, Strike included, compute on
\* sequences of unequal length ends in the alignment-length-mismatch error
\* and evaluate is never entered: no score, no staging, no external run.
C1_MismatchRaisesForEveryMetric ==
    Ragged =>
      /\ (metric \in ScoreMetrics /\ outcome.kind # "not_called")
            => outcome = AlignmentLengthMismatch
      /\ metric = "Strike" =>
            \A s \in Scorers :
               /\ pc[s] = "idle"
               /\ \A i \in DOMAIN calls[s] :
                     /\ calls[s][i].result = "AlignmentLengthMismatch"
                     /\ ~calls[s][i].staged
                     /\ ~calls[s][i].ran

\* C4 as stated: Entropy.evaluate adds frequency * ln(frequency) once per
\* symbol occurrence, so a symbol appearing m times in a column of n gives
\* m terms of (m/n) * ln(m/n).
C4_EntropyOncePerOccurrence ==
    ReturnedBy("Entropy") => outcome.value = LogSumOver(Cells, FrequencyTerm)

\* C4 amended: Entropy.evaluate adds frequency * ln(frequency) once per
\* distinct symbol of each column: a symbol appearing m times in a column
\* of n gives one term (m/n) * ln(m/n), and the score is the sum of these
\* terms over all columns.
C4_EntropyOncePerDistinctSymbol ==
    ReturnedBy("Entropy") =>
        outcome.value = LogSumOver(DistinctCells, FrequencyTerm)

\* An Entropy score of an alignment with a column in which a symbol occurs
\* more than once but not in every row.
C4_Witness ==
    /\ ReturnedBy("Entropy")
    /\ \E c \in Cells :
          LET m == Occurrences(c[1], ColumnAt(c[1])[c[2]])
          IN m >= 2 /\ m < Rows

\* The majority symbol of column k: of the highest count and, among the
\* symbols of that count, the one occurring first.
Majority(k) ==
    CHOOSE w \in Range(ColumnAt(k)) :
        \A v \in Range(ColumnAt(k)) \ {w} :
            \/ Occurrences(k, v) < Occurrences(k, w)
            \/ /\ Occurrences(k, v) = Occurrences(k, w)
               /\ FirstOccurrence(k, w) < FirstOccurrence(k, v)

\* C5: Star.evaluate is the sum, over all columns and every position of
\* the column, of the substitution value between the column's majority
\* symbol (highest count; among ties the earliest first occurrence) and the
\* symbol at that position; with distance(x,x) = M and distance(x,y) = 0
\* otherwise, n fully conserved sequences of L columns score n*M*L.
C5_StarScore ==
    ReturnedBy("Star") =>
        /\ outcome.value =
              SumOver(Cells,
                 [c \in Cells |->
                    get_distance(substitution_matrix, Majority(c[1]),
                                 ColumnAt(c[1])[c[2]])])
        /\ (substitution_matrix = "Identity" /\ \A k \in 1..Columns : Conserved(k))
              => outcome.value = Rows * MatchValue * Columns

\* A Star score, under the matrix that tells ordered pairs apart, of an
\* alignment with a column whose highest count is shared by two symbols,
\* the column not starting with the one that occurs last.
C5_Witness ==
    /\ ReturnedBy("Star")
    /\ substitution_matrix = "Ordered"
    /\ Rows >= 3
    /\ \E k \in 1..Columns : \E v, w \in Range(ColumnAt(k)) :
          /\ v # w
          /\ Occurrences(k, v) = Occurrences(k, w)
          /\ \A u \in Range(ColumnAt(k)) : Occurrences(k, u) <= Occurrences(k, w)

RowPairs == {p \in (1..Rows) \X (1..Rows) : p[1] < p[2]}

\* C6: SumOfPairs.evaluate is the sum, over all columns, of the substitution
\* value of the C(n,2) pairs of positions i < j, each once; with
\* distance(x,x) = M and distance(x,y) = 0 otherwise, n fully conserved
\* sequences of L columns score C(n,2)*M*L.
C6_SumOfPairsScore ==
    ReturnedBy("SumOfPairs") =>
        /\ outcome.value =
              SumOver((1..Columns) \X RowPairs,
                 [c \in (1..Columns) \X RowPairs |->
                    get_distance(substitution_matrix,
                                 ColumnAt(c[1])[c[2][1]], ColumnAt(c[1])[c[2][2]])])
        /\ \A k \in 1..Columns :
              Len(possible_combinations(ColumnAt(k))) = Choose2(Rows)
        /\ (substitution_matrix = "Identity" /\ \A k \in 1..Columns : Conserved(k))
              => outcome.value = Choose2(Rows) * MatchValue * Columns

\* A SumOfPairs score of three or more sequences with two or more columns,
\* one of them not conserved.
C6_Witness ==
    /\ ReturnedBy("SumOfPairs")
    /\ Rows >= 3
    /\ Columns >= 2
    /\ \E k \in 1..Columns : ~Conserved(k)

TotalGaps == Cardinality({c \in Cells : ColumnAt(c[1])[c[2]] = "-"})

\* C7: PercentageOfNonGaps.evaluate returns
\* 100 - totalGaps / (sequenceLength * numberOfSequences) * 100 for any
\* number of sequences: 100 without gaps, 0 when every position is a gap,
\* between 0 and 100 otherwise.
C7_NonGapPercentage ==
    ReturnedBy("PercentageOfNonGaps") =>
        /\ Rows * Columns > 0
        /\ outcome.value[1] * (Rows * Columns)
              = 100 * (Rows * Columns - TotalGaps) * outcome.value[2]
        /\ TotalGaps = 0 => outcome.value = <<100, 1>>
        /\ TotalGaps = Rows * Columns => outcome.value = <<0, 1>>
        /\ (0 < TotalGaps /\ TotalGaps < Rows * Columns)
              => /\ RatLess(<<0, 1>>, outcome.value)
                 /\ RatLess(outcome.value, <<100, 1>>)

\* A non-gap percentage of three sequences, some but not all positions gaps.
C7_Witness ==
    /\ ReturnedBy("PercentageOfNonGaps")
    /\ Rows = 3
    /\ 0 < TotalGaps
    /\ TotalGaps < Rows * Columns

ConservedColumns == {k \in 1..Columns : Conserved(k)}

\* C8: PercentageOfTotallyConservedColumns.evaluate returns
\* conservedColumns / totalColumns * 100, a column counting exactly when
\* all sequences hold the same symbol there (gaps included), whatever the
\* columns before it hold; a single sequence yields 100.
C8_ConservedColumnPercentage ==
    ReturnedBy("PercentageOfTotallyConservedColumns") =>
        /\ Columns > 0
        /\ outcome.value[1] * Columns
              = 100 * Cardinality(ConservedColumns) * outcome.value[2]
        /\ Rows = 1 => outcome.value = <<100, 1>>

\* A percentage of an alignment of several sequences in which a conserved
\* column, one of gaps, follows a column that is not conserved.
C8_Witness ==
    /\ ReturnedBy("PercentageOfTotallyConservedColumns")
    /\ Rows >= 2
    /\ \E k \in 2..Columns :
          /\ ~Conserved(k - 1)
          /\ \A i \in 1..Rows : aligned_sequences[i][k] = "-"

\* The instance s is the only one that has called compute.
Alone(s) == \A o \in Scorers \ {s} : calls[o] = <<>>
Finished(c) == c.result # "running"
AllCalls == {<<s, i>> : s \in Scorers, i \in 1..MaxCalls}
Made == {x \in AllCalls : x[2] <= Len(calls[x[1]])}
CallAt(x) == calls[x[1]][x[2]]
\* Instance s takes a step of a compute call.
Acts(s) == <<pc[s], idx[s], calls[s]>> # <<pc'[s], idx'[s], calls'[s]>>

\* A call made when both staging files exist, and any call after the
\* instance's first, neither fetches nor stages, and ends in the executable.
C2_ReuseInvariant ==
    \A x \in Made :
        /\ (CallAt(x).files_at_entry \/ x[2] >= 2) =>
              /\ ~CallAt(x).staged
              /\ CallAt(x).fetches = 0
              /\ Finished(CallAt(x)) => CallAt(x).ran
        /\ (CallAt(x).files_at_entry /\ x[2] = Len(calls[x[1]])) =>
              pc[x[1]] \in {"check_con", "run", "idle"}

\* The steps of a call made when both staging files exist leave the
\* staging files and the structure files as they are.
C2_ReuseStep ==
    \A s \in Scorers :
        (pc[s] # "idle" /\ cur(s).files_at_entry /\ Acts(s))
            => UNCHANGED <<con, aln, pdb>>

\* C2: once both staging files exist, every later compute call of a Strike
\* scorer fetches no structure, writes nothing to either staging file and
\* goes directly to the external executable; of two successive calls
\* starting from an empty staging directory only the first fetches and
\* stages.
C2_StagedFilesAreReused == []C2_ReuseInvariant /\ [][C2_ReuseStep]_vars

\* One instance alone made two calls: the first fetched and staged, the
\* second found both files and ran the executable.
C2_Witness ==
    \E s \in Scorers :
        /\ Alone(s)
        /\ Len(calls[s]) = 2
        /\ calls[s][1].staged
        /\ calls[s][1].fetches >= 1
        /\ calls[s][2].files_at_entry
        /\ calls[s][2].ran

\* C3: over any sequence of compute calls of a Strike scorer with the same
\* inputs, starting from an empty staging directory, every call that
\* reaches the external executable runs it on a connectivity file and an
\* alignment file holding one record for every input sequence, also after
\* an earlier call failed part-way through staging.
C3_ExecutableRunsOnCompleteFiles ==
    \A s \in Scorers : Alone(s) =>
        \A i \in DOMAIN calls[s] :
            (/\ calls[s][i].ran
             /\ \A j \in 1..(i - 1) :
                   calls[s][j].result \in {"returned", "StructureNotFound"}) =>
                /\ calls[s][i].ran_con =
                      [exists |-> TRUE,
                       records |-> [j \in 1..Rows |-> connection_line(j)]]
                /\ calls[s][i].ran_aln =
                      [exists |-> TRUE,
                       records |-> [j \in 1..Rows |-> alignment_record(j)]]

\* C9 as stated: a call whose structure fetch failed ends in
\* StructureNotFound, whether the failure is an HTTP error response or a
\* transport error.
C9_AnyFailedFetchIsStructureNotFound ==
    \A x \in Made :
        (Finished(CallAt(x)) /\ CallAt(x).fetch_failure # "none")
            => CallAt(x).result = "StructureNotFound"

C9_FailureKinds ==
    \A x \in Made :
        /\ (Finished(CallAt(x)) /\ CallAt(x).fetch_failure = "HTTPError")
              => CallAt(x).result = "StructureNotFound"
        /\ (Finished(CallAt(x)) /\ CallAt(x).fetch_failure = "URLError")
              => CallAt(x).result = "URLError"
        /\ (CallAt(x).fetch_failure # "none" /\ x[2] = Len(calls[x[1]])
            /\ pc[x[1]] # "idle")
              => pc[x[1]] \in {"close_aln", "close_con"}

C9_FetchStep ==
    \A s \in Scorers :
        /\ (pc[s] = "fetch" /\ Acts(s) /\ cur(s).fetch_failure' # "none")
              => pdb' = pdb
        /\ (pc[s] = "loop" /\ Acts(s) /\ idx[s] <= Rows
            /\ sequences_id[idx[s]] \in pdb)
              => /\ pc'[s] = "loop"
                 /\ cur(s).fetches' = cur(s).fetches
                 /\ pdb' = pdb

\* C9 amended: with no local <id>.pdb, a fetch that fails with an HTTP
\* error response ends the call in StructureNotFound, and a fetch that
\* fails with a transport error ends the call in that transport error
\* (URLError), not in StructureNotFound; in both cases no local structure
\* file is written for the id; when the local file exists no fetch is made.
C9_FetchFailures == []C9_FailureKinds /\ [][C9_FetchStep]_vars

\* A call ended by a transport error and a call ended by an HTTP error
\* response, neither id having a local structure file.
C9_Witness ==
    /\ \E x \in Made : /\ CallAt(x).fetch_failure = "URLError"
                       /\ CallAt(x).result = "URLError"
    /\ \E x \in Made : /\ CallAt(x).fetch_failure = "HTTPError"
                       /\ CallAt(x).result = "StructureNotFound"
    /\ pdb = {}

\* C10: the existence checks and the creation of the staging files are
\* separate steps with nothing between instances but the files themselves:
\* a call stages exactly when its own two checks found neither file, so two
\* instances on one empty staging directory can both find neither file and
\* both stage.
C10_StagingDecidedByOwnChecks ==
    \A x \in Made :
        /\ CallAt(x).staged =>
              /\ CallAt(x).saw_con = "absent"
              /\ CallAt(x).saw_aln = "absent"
        /\ (CallAt(x).saw_con = "absent" /\ CallAt(x).saw_aln = "absent"
            /\ ~CallAt(x).staged)
              => /\ x[2] = Len(calls[x[1]])
                 /\ pc[x[1]] \in {"open_con", "open_aln"}
        /\ (x[2] = Len(calls[x[1]]) /\ pc[x[1]] \in {"open_con", "open_aln"})
              => /\ CallAt(x).saw_con = "absent"
                 /\ CallAt(x).saw_aln = "absent"

\* Both instances, in their first calls on the empty staging directory,
\* found neither file, opened both files and wrote their records to them.
C10_Witness ==
    \A s \in Scorers :
        /\ Len(calls[s]) = 1
        /\ ~calls[s][1].files_at_entry
        /\ calls[s][1].saw_con = "absent"
        /\ calls[s][1].saw_aln = "absent"
        /\ calls[s][1].staged
        /\ pc[s] = "run"
        /\ Len(c_file[s]) >= 1
        /\ Len(a_file[s]) >= 1

====
